---- MODULE Spec2Model ----
(***************************************************************************)
(* Model of src/src/request/_request.ts: the quote-to-order pipeline       *)
(* newOrder, the order assembler getOrderAndFeeFactor with its amount and  *)
(* fee-factor computations, the memoized base-token lookup, and the HTTP   *)
(* helpers sendRequest and jsonrpc.get with their error constructor.       *)
(***************************************************************************)
EXTENDS Integers, Sequences, FiniteSets, TLC

VARIABLES
  tokenList,   \* what getSupportedTokens() returns now (refreshed out-of-band)
  memo,        \* the cache of memoize(_getBaseTokenByAddress), module-level
  pc,          \* per request: "init", "awaitPrice", "awaitSigner", "done"
  req,         \* per request: the local req (the default protocol, then ctx.query)
  errMsg,      \* per request: the message the validators returned ("" = none)
  rateBody,    \* per request: what requestMarketMaker returned
  resp,        \* per request: the local resp of newOrder (rate, min, max)
  order,       \* per request: the order getOrderAndFeeFactor assembled
  body,        \* per request: ctx.body
  ret,         \* per request: the state of the promise newOrder returned
  calls,       \* per request: the external calls made so far, in order
  built,       \* per request: what the builder or signer handed back
  fnIn,        \* the arguments of getOrderAndFeeFactor, or the url and the HTTP
               \* exchange of jsonrpc.get, when one of them is run on its own
  fnOut        \* what it returned, once run (for jsonrpc.get: its promises)

vars == <<tokenList, memo, pc, req, errMsg, rateBody, resp, order, body, ret,
          calls, built, fnIn, fnOut>>

pipelineVars == <<tokenList, memo, pc, req, errMsg, rateBody, resp, order, body,
                  ret, calls, built>>

-----------------------------------------------------------------------------
(* JavaScript values, as far as this file uses them                        *)

\* the string "undefined" stands for the JavaScript value undefined in a
\* field that otherwise holds a string
Undefined == "undefined"

JUndef == [t |-> "undefined"]
JNaN == [t |-> "NaN"]
JNum(n) == [t |-> "number", v |-> n]
JStr(s) == [t |-> "string", s |-> s]

\* Number(x) and unary plus on the values the fee-factor code meets
ParseTable == [s \in {"30", "0", "-1", "abc"} |->
                 CASE s = "30" -> JNum(30)
                   [] s = "0" -> JNum(0)
                   [] s = "-1" -> JNum(0 - 1)
                   [] OTHER -> JNaN]

ToNumber(x) ==
  CASE x.t = "number" -> x
    [] x.t = "string" -> ParseTable[x.s]
    [] OTHER -> JNaN

JNull == [t |-> "null"]
JBool(b) == [t |-> "boolean", v |-> b]
\* an object with the properties f; cls is "Error" for Error objects
JObj(cls, f) == [t |-> "object", cls |-> cls, f |-> f]

\* the truthiness test of &&, ||, ?. and if
Truthy(x) ==
  CASE x.t = "number" -> x.v # 0
    [] x.t = "string" -> x.s # ""
    [] x.t = "boolean" -> x.v
    [] x.t = "object" -> TRUE
    [] OTHER -> FALSE

\* _.isObject
isObject(x) == x.t = "object"

\* _.isUndefined
isUndefined(x) == x.t = "undefined"

\* x.k on a value other than null and undefined
Prop(x, k) == IF x.t = "object" /\ k \in DOMAIN x.f THEN x.f[k] ELSE JUndef

\* the decimal digits of the numbers that get printed
NumberText == [n \in {0, 1, 199, 200, 299, 300, 404, 500} |->
                 CASE n = 0 -> "0" [] n = 1 -> "1" [] n = 199 -> "199"
                   [] n = 200 -> "200" [] n = 299 -> "299" [] n = 300 -> "300"
                   [] n = 404 -> "404" [] OTHER -> "500"]

\* `${x}` in a template string
RECURSIVE TemplateString(_)
TemplateString(x) ==
  CASE x.t = "string" -> x.s
    [] x.t = "number" -> NumberText[x.v]
    [] x.t = "boolean" -> IF x.v THEN "true" ELSE "false"
    [] x.t = "null" -> "null"
    [] x.t = "undefined" -> "undefined"
    [] x.t = "NaN" -> "NaN"
    [] OTHER -> IF x.cls = "Error"
                  THEN (IF Truthy(Prop(x, "message"))
                          THEN "Error: " \o TemplateString(Prop(x, "message"))
                          ELSE "Error")
                  ELSE "[object Object]"

-----------------------------------------------------------------------------
(* Addresses and String.prototype.toLowerCase                              *)

MixedCaseAddrs == <<"0xC02A", "0xA0B8", "0x11AA", "0x22BB", "0x33CC", "0x44DD", "0x55EE">>
LowerCaseAddrs == <<"0xc02a", "0xa0b8", "0x11aa", "0x22bb", "0x33cc", "0x44dd", "0x55ee">>

ToLowerCase(s) ==
  IF \E i \in DOMAIN MixedCaseAddrs : MixedCaseAddrs[i] = s
    THEN LowerCaseAddrs[CHOOSE i \in DOMAIN MixedCaseAddrs : MixedCaseAddrs[i] = s]
    ELSE s

IsLowerCase(s) == ToLowerCase(s) = s

\* the native-asset sentinel of ../constants
ETH_ADDRESS == "0x0000"
\* FEE_RECIPIENT_ADDRESS of ../constants
FEE_RECIPIENT_ADDRESS == "0x55EE"

-----------------------------------------------------------------------------
(* Decimal numbers (BigNumber): m * 10^e, m a natural number               *)

RECURSIVE Pow10(_)
Pow10(n) == IF n = 0 THEN 1 ELSE 10 * Pow10(n - 1)

Dec(m, e) == [m |-> m, e |-> e]

RECURSIVE Norm(_)
Norm(x) ==
  IF x.m = 0 THEN Dec(0, 0)
  ELSE IF x.m % 10 = 0 THEN Norm(Dec(x.m \div 10, x.e + 1))
  ELSE x

\* x <= y
DecLE(x, y) ==
  LET lo == IF x.e < y.e THEN x.e ELSE y.e
  IN x.m * Pow10(x.e - lo) <= y.m * Pow10(y.e - lo)

\* the two rounding modes BigNumber.config can leave toFixed with: the
\* library's default ROUND_HALF_UP, and ROUND_DOWN
RoundingModes == {"ROUND_HALF_UP", "ROUND_DOWN"}

RoundUp(rm, rem, d) == rm = "ROUND_HALF_UP" /\ 2 * rem >= d

\* BigNumber.toFixed(dp), read back as a number by fromUnitToDecimalBN
ToFixed(x, dp, rm) ==
  IF x.e >= 0 - dp THEN Norm(x)
  ELSE LET d == Pow10(0 - dp - x.e)
           q == x.m \div d
           rem == x.m % d
       IN Norm(Dec(q + (IF RoundUp(rm, rem, d) THEN 1 ELSE 0), 0 - dp))

\* amountBN.dividedBy(rate).toFixed(dp): the quotient's digits beyond dp
\* decide the rounding only through the remainder
DividedByToFixed(x, rate, dp, rm) ==
  LET n == x.m * Pow10(x.e + dp)
      q == n \div rate
      rem == n % rate
  IN Norm(Dec(q + (IF RoundUp(rm, rem, rate) THEN 1 ELSE 0), 0 - dp))

\* amountBN.times(rate)
Times(x, rate) == Norm(Dec(x.m * rate, x.e))

\* fromUnitToDecimalBN(x, decimals): x * 10^decimals
fromUnitToDecimalBN(x, decimals) == Norm(Dec(x.m, x.e + decimals))

\* a base-unit amount back in human units
HumanUnits(x, decimals) == Norm(Dec(x.m, x.e - decimals))

-----------------------------------------------------------------------------
(* Token registry and configuration snapshots                              *)

Token(symbol, addr, decimal, precision, minT, maxT) ==
  [symbol |-> symbol, contractAddress |-> addr, decimal |-> decimal,
   precision |-> precision, minTradeAmount |-> minT, maxTradeAmount |-> maxT]

NotFound == [found |-> FALSE]
Found(t) == [found |-> TRUE, token |-> t]

\* Array.prototype.find: the index of the first element the predicate
\* holds for (hits[i] says whether it holds for element i), 0 if none
FindIndex(hits) ==
  IF \E i \in DOMAIN hits : hits[i]
    THEN CHOOSE i \in DOMAIN hits : hits[i] /\ \A j \in 1..(i - 1) : ~hits[j]
    ELSE 0

\* getTokenByAddress of ../utils: the registry entry with this address, none if absent
getTokenByAddress(list, address) ==
  LET i == FindIndex([k \in DOMAIN list |->
                        ToLowerCase(list[k].contractAddress) = ToLowerCase(address)])
  IN IF i = 0 THEN NotFound ELSE Found(list[i])

\* getWethAddrIfIsEth of ../utils: the wrapped-native address for the native
\* sentinel, the address itself otherwise; lowerCases says whether this
\* helper lower-cases what it returns
getWethAddrIfIsEth(address, wethAddr, lowerCases) ==
  LET a == IF ToLowerCase(address) = ETH_ADDRESS THEN wethAddr ELSE address
  IN IF lowerCases THEN ToLowerCase(a) ELSE a

\* assetDataUtils.encodeERC20AssetData: the ERC20 proxy id, then the address
encodeERC20AssetData(addr) == "0xf47261b0" \o addr

-----------------------------------------------------------------------------
(* Amount Calculator                                                       *)

TRUNCATE_PRECISION == 6

\* the comparison taken inclusively: 8 decimals still get 6 digits
findSuitablePrecisionInclusive(decimals) ==
  IF decimals <= 8 THEN TRUNCATE_PRECISION ELSE 8

findSuitablePrecision(decimals) ==
  IF decimals < 8 THEN TRUNCATE_PRECISION ELSE 8

\* the SELL amounts scaled by each other's token decimals
extractAssetAmountsCrossScaled(makerToken, takerToken, side, rate, amountBN, rm) ==
  IF side = "BUY"
    THEN [makerAssetAmount |->
            fromUnitToDecimalBN(ToFixed(amountBN, makerToken.precision, rm),
                                makerToken.decimal),
          takerAssetAmount |->
            fromUnitToDecimalBN(
              DividedByToFixed(amountBN, rate,
                               findSuitablePrecision(takerToken.decimal), rm),
              takerToken.decimal)]
    ELSE [makerAssetAmount |->
            fromUnitToDecimalBN(
              ToFixed(Times(amountBN, rate),
                      findSuitablePrecision(makerToken.decimal), rm),
              takerToken.decimal),
          takerAssetAmount |->
            fromUnitToDecimalBN(ToFixed(amountBN, takerToken.precision, rm),
                                makerToken.decimal)]

extractAssetAmounts(makerToken, takerToken, side, rate, amountBN, rm) ==
  IF side = "BUY"
    THEN [makerAssetAmount |->
            fromUnitToDecimalBN(ToFixed(amountBN, makerToken.precision, rm),
                                makerToken.decimal),
          takerAssetAmount |->
            fromUnitToDecimalBN(
              DividedByToFixed(amountBN, rate,
                               findSuitablePrecision(takerToken.decimal), rm),
              takerToken.decimal)]
    ELSE [makerAssetAmount |->
            fromUnitToDecimalBN(
              ToFixed(Times(amountBN, rate),
                      findSuitablePrecision(makerToken.decimal), rm),
              makerToken.decimal),
          takerAssetAmount |->
            fromUnitToDecimalBN(ToFixed(amountBN, takerToken.precision, rm),
                                takerToken.decimal)]

-----------------------------------------------------------------------------
(* Fee Factor Resolver (getOrderAndFeeFactor, the fFactor lines)           *)

DEFAULT_FEE_FACTOR == 10

\* foundTokenConfig?.feeFactor: undefined when no entry was found
OptionalFeeFactor(foundTokenConfig) ==
  IF foundTokenConfig.found THEN foundTokenConfig.config.feeFactor ELSE JUndef

feeFactorOf(configFeeFactor, foundTokenConfig, feefactor) ==
  LET n == ToNumber(configFeeFactor)
      f0 == IF Truthy(n) THEN n ELSE JNum(DEFAULT_FEE_FACTOR)
      f1 == IF Truthy(OptionalFeeFactor(foundTokenConfig))
              THEN OptionalFeeFactor(foundTokenConfig) ELSE f0
      q == ToNumber(feefactor)
  IN IF Truthy(feefactor) /\ q.t # "NaN" /\ q.v >= 0 THEN q ELSE f1

\* tokenConfigs.find((t) => t.symbol === makerToken.symbol)
findTokenConfig(tokenConfigs, symbol) ==
  LET i == FindIndex([k \in DOMAIN tokenConfigs |-> tokenConfigs[k].symbol = symbol])
  IN IF i = 0 THEN NotFound ELSE [found |-> TRUE, config |-> tokenConfigs[i]]

-----------------------------------------------------------------------------
(* Order Assembler                                                         *)

\* the RFQV2 exception applied to the wrong protocol tag
takerAssetAddressOfRFQV1(protocol, takerToken, config, lowerCases) ==
  IF protocol = "RFQV1"
    THEN takerToken.contractAddress
    ELSE getWethAddrIfIsEth(takerToken.contractAddress, config.wethContractAddress,
                            lowerCases)

\* let takerAssetAddress = getWethAddrIfIsEth(...); if (RFQV2) takerAssetAddress = raw
takerAssetAddressOf(protocol, takerToken, config, lowerCases) ==
  IF protocol = "RFQV2"
    THEN takerToken.contractAddress
    ELSE getWethAddrIfIsEth(takerToken.contractAddress, config.wethContractAddress,
                            lowerCases)

makerAssetAddressOf(makerToken, config, lowerCases) ==
  getWethAddrIfIsEth(makerToken.contractAddress, config.wethContractAddress, lowerCases)

\* env: what the build fixes outside this file (BigNumber's rounding mode,
\* whether getWethAddrIfIsEth lower-cases, the clock)
buildOrder(q, rate, makerToken, takerToken, tokenConfigs, config, env) ==
  LET amounts == extractAssetAmounts(makerToken, takerToken, q.side, rate, q.amount,
                                     env.roundingMode)
      makerAssetAddress == makerAssetAddressOf(makerToken, config, env.lowerCases)
      takerAssetAddress == takerAssetAddressOf(q.protocol, takerToken, config,
                                               env.lowerCases)
  IN [protocol |-> q.protocol,
      quoteId |-> q.uniqId,
      makerAddress |-> ToLowerCase(config.mmProxyContractAddress),
      makerAssetAmount |-> amounts.makerAssetAmount,
      makerAssetAddress |-> makerAssetAddress,
      makerAssetData |-> encodeERC20AssetData(makerAssetAddress),
      makerFee |-> 0,
      takerAddress |-> config.userProxyContractAddress,
      takerAssetAmount |-> amounts.takerAssetAmount,
      takerAssetAddress |-> takerAssetAddress,
      takerAssetData |-> encodeERC20AssetData(takerAssetAddress),
      takerFee |-> 0,
      senderAddress |-> ToLowerCase(config.tokenlonExchangeContractAddress),
      feeRecipientAddress |-> ToLowerCase(FEE_RECIPIENT_ADDRESS),
      expirationTimeSeconds |-> env.now + config.orderExpirationSeconds,
      exchangeAddress |-> ToLowerCase(config.exchangeContractAddress),
      feeFactor |-> feeFactorOf(config.feeFactor,
                                findTokenConfig(tokenConfigs, makerToken.symbol),
                                q.feefactor)]

\* [ok |-> FALSE] when a token is not in the list: the property reads on
\* the missing token throw a TypeError
getOrderAndFeeFactor(q, rate, list, tokenConfigs, config, env) ==
  LET baseToken == getTokenByAddress(list, q.baseAddress)
      quoteToken == getTokenByAddress(list, q.quoteAddress)
      makerToken == IF q.side = "BUY" THEN baseToken ELSE quoteToken
      takerToken == IF q.side = "BUY" THEN quoteToken ELSE baseToken
  IN IF ~baseToken.found \/ ~quoteToken.found
       THEN [ok |-> FALSE]
       ELSE [ok |-> TRUE,
             order |-> buildOrder(q, rate, makerToken.token, takerToken.token,
                                  tokenConfigs, config, env)]

-----------------------------------------------------------------------------
(* The requests newOrder serves, and what its collaborators can answer     *)

Reqs == {"r1", "r2"}

Protocols == {"AMMV1", "AMMV2", "PMMV5", "RFQV1", "RFQV2"}
\* a tag of the Protocol enum that the switch has no case for
UnknownTags == {"PMMV4"}

\* ctx.query: protocol and uniqId may be missing
CtxQueries ==
  [protocol : Protocols \cup UnknownTags \cup {Undefined},
   side : {"BUY", "SELL"},
   uniqId : {"uid-1", Undefined},
   baseAddress : {"0xA0B8"},
   quoteAddress : {"0xdac1"},
   amount : {Dec(10, 0)},
   userAddr : {"0x22BB"},
   feefactor : {JUndef}]

\* what a collaborator throws or rejects with: an Error, a value without
\* stack/message properties (a string, a number), or null/undefined
Thrown ==
  {[kind |-> "Error", message |-> "upstream failed"],
   [kind |-> "primitive", message |-> Undefined],
   [kind |-> "nullish", message |-> Undefined]}

\* new ValidationError(errMsg) of ./errors: an Error carrying the message
ValidationError(msg) == [kind |-> "Error", message |-> msg]

\* the TypeError of a property access on undefined or null
TypeError == [kind |-> "Error", message |-> "Cannot read properties of undefined"]

\* preprocessQuote of ../quoting: the fields newOrder reads pass through
preprocessQuote(r) == r

\* validateRequest of ../validations: "" or a message
ValidateRequestResults == {"", "invalid request"}

\* validateNewOrderRequest of ../validations: amount, uniqId and userAddr must be there
validateNewOrderRequest(amount, uniqId, userAddr) ==
  IF amount.m = 0 THEN "amount is required"
  ELSE IF uniqId = Undefined THEN "uniqId is required"
  ELSE IF userAddr = Undefined THEN "userAddr is required"
  ELSE ""

\* quoter.getPrice resolves with one of these
PriceResults ==
  {[rate |-> 2, minAmount |-> 3, maxAmount |-> 300, quoteId |-> "q-1",
    payload |-> "payload-1", salt |-> "salt-1", makerAddress |-> "0x11AA"]}

\* addQuoteIdPrefix of ../quoting
addQuoteIdPrefix(quoteId) == "mmsk--" \o quoteId

\* requestMarketMaker, after the await: constructQuoteResponse passes rate,
\* bounds, salt and maker address on
rateBodyOf(priceResult) ==
  [rate |-> priceResult.rate, minAmount |-> priceResult.minAmount,
   maxAmount |-> priceResult.maxAmount, salt |-> priceResult.salt,
   makerAddress |-> priceResult.makerAddress,
   quoteId |-> addQuoteIdPrefix(priceResult.quoteId),
   payload |-> priceResult.payload]

\* the snapshots of the updaters
MainConfig ==
  [feeFactor |-> JNum(20), wethContractAddress |-> "0xC02A",
   mmProxyContractAddress |-> "0x11AA", userProxyContractAddress |-> "0x22bb",
   tokenlonExchangeContractAddress |-> "0x33CC", exchangeContractAddress |-> "0x44DD",
   orderExpirationSeconds |-> 600]

MainTokenConfigs == <<[symbol |-> "A", feeFactor |-> JNum(25)]>>

MainEnv == [roundingMode |-> "ROUND_HALF_UP", lowerCases |-> TRUE, now |-> 1000]

TokenA(minT, maxT) == Token("A", "0xA0B8", 18, 4, minT, maxT)
TokenB == Token("B", "0xdac1", 6, 6, 5, 500)

\* the token lists the refresher can install: A with two sets of trade
\* bounds, and A delisted
TokenLists ==
  {<<TokenA(1, 100), TokenB>>, <<TokenA(2, 200), TokenB>>, <<TokenB>>}

\* what a builder or signer hands back: the order (possibly with its own
\* quoteId and protocol), or nothing
BuilderReturns(o) ==
  {[kind |-> "order", order |-> o],
   [kind |-> "order",
    order |-> [o EXCEPT !.quoteId = "builder-id", !.protocol = "BUILDER"]],
   [kind |-> "nullish"]}

-----------------------------------------------------------------------------
(* newOrder                                                                *)

None == [none |-> TRUE]
Pending == [state |-> "pending"]
Unset == [unset |-> TRUE]

\* const req = { protocol: Protocol.PMMV5, ...ctx.query }
reqOf(ctxQuery) ==
  IF ctxQuery.protocol = Undefined
    THEN [ctxQuery EXCEPT !.protocol = "PMMV5"]
    ELSE ctxQuery

\* e.message as the catch block reads it
MessageOf(e) == IF e.kind = "Error" THEN e.message ELSE Undefined

\* ctx.body = { result: false, exchangeable: false, message: e.message }
FailureBody(e) ==
  [result |-> FALSE, exchangeable |-> FALSE, message |-> MessageOf(e)]

\* ctx.body = { result: true, exchangeable: true, ...resp }
SuccessBody(rsp) ==
  [result |-> TRUE, exchangeable |-> TRUE, rate |-> rsp.rate,
   minAmount |-> rsp.minAmount, maxAmount |-> rsp.maxAmount, order |-> rsp.order]

\* a catch block that spreads what resp holds into the failure body
CatchSpreadsResp(r, e) ==
  /\ body' = [body EXCEPT ![r] =
                IF e.kind = "nullish" THEN @
                ELSE IF resp[r] = None THEN FailureBody(e)
                ELSE [result |-> FALSE, exchangeable |-> FALSE,
                      message |-> MessageOf(e), rate |-> resp[r].rate,
                      minAmount |-> resp[r].minAmount,
                      maxAmount |-> resp[r].maxAmount]]
  /\ ret' = [ret EXCEPT ![r] =
               IF e.kind = "nullish"
                 THEN [state |-> "rejected", error |-> "TypeError"]
                 ELSE [state |-> "resolved", type |-> "string", value |-> MessageOf(e)]]
  /\ pc' = [pc EXCEPT ![r] = "done"]

\* the catch block: console.error(e.stack) throws on null and undefined,
\* before ctx.body is written, and the promise rejects
Catch(r, e) ==
  /\ body' = [body EXCEPT ![r] = IF e.kind = "nullish" THEN @ ELSE FailureBody(e)]
  /\ ret' = [ret EXCEPT ![r] =
               IF e.kind = "nullish"
                 THEN [state |-> "rejected", error |-> "TypeError"]
                 ELSE [state |-> "resolved", type |-> "string", value |-> MessageOf(e)]]
  /\ pc' = [pc EXCEPT ![r] = "done"]

\* resp.order.quoteId = quoteId without the protocol stamp
StampQuoteIdOnly(o, quoteId, protocol) == [o EXCEPT !.quoteId = quoteId]

\* resp.order.quoteId = quoteId; resp.order.protocol = protocol
Stamp(o, quoteId, protocol) == [o EXCEPT !.quoteId = quoteId, !.protocol = protocol]

\* from the builder's answer to the end of newOrder
Finish(r, rsp, rb, protocol, answer) ==
  IF answer.kind = "nullish"
    THEN /\ Catch(r, TypeError)
         /\ resp' = [resp EXCEPT ![r] = rsp]
         /\ built' = [built EXCEPT ![r] = [kind |-> "nullish"]]
    ELSE LET full == [rate |-> rsp.rate, minAmount |-> rsp.minAmount,
                      maxAmount |-> rsp.maxAmount,
                      order |-> Stamp(answer.order, rb.quoteId, protocol)]
         IN /\ body' = [body EXCEPT ![r] = SuccessBody(full)]
            /\ ret' = [ret EXCEPT ![r] =
                         [state |-> "resolved", type |-> "object", value |-> full]]
            /\ pc' = [pc EXCEPT ![r] = "done"]
            /\ resp' = [resp EXCEPT ![r] = full]
            /\ built' = [built EXCEPT ![r] = answer]

\* newOrder up to preprocessQuote, which throws
PreprocessThrows(r) ==
  /\ pc[r] = "init"
  /\ \E cq \in CtxQueries, e \in Thrown :
       /\ req' = [req EXCEPT ![r] = reqOf(cq)]
       /\ Catch(r, e)
  /\ UNCHANGED <<tokenList, memo, errMsg, rateBody, resp, order, calls, built, fnIn, fnOut>>

\* validateRequest returns a message
ValidationFails(r) ==
  /\ pc[r] = "init"
  /\ \E cq \in CtxQueries, msg \in ValidateRequestResults \ {""} :
       /\ req' = [req EXCEPT ![r] = reqOf(cq)]
       /\ errMsg' = [errMsg EXCEPT ![r] = msg]
       /\ Catch(r, ValidationError(msg))
  /\ UNCHANGED <<tokenList, memo, rateBody, resp, order, calls, built, fnIn, fnOut>>

\* the second validation run only after the price was requested
NewOrderValidationFailsAfterPrice(r) ==
  /\ pc[r] = "init"
  /\ \E cq \in CtxQueries :
       LET q == preprocessQuote(reqOf(cq))
           msg == validateNewOrderRequest(q.amount, q.uniqId, q.userAddr)
       IN /\ msg # ""
          /\ req' = [req EXCEPT ![r] = reqOf(cq)]
          /\ errMsg' = [errMsg EXCEPT ![r] = msg]
          /\ Catch(r, ValidationError(msg))
  /\ calls' = [calls EXCEPT ![r] = Append(@, "getPrice")]
  /\ UNCHANGED <<tokenList, memo, rateBody, resp, order, built, fnIn, fnOut>>

\* validateRequest passes, validateNewOrderRequest returns a message
NewOrderValidationFails(r) ==
  /\ pc[r] = "init"
  /\ \E cq \in CtxQueries :
       LET q == preprocessQuote(reqOf(cq))
           msg == validateNewOrderRequest(q.amount, q.uniqId, q.userAddr)
       IN /\ msg # ""
          /\ req' = [req EXCEPT ![r] = reqOf(cq)]
          /\ errMsg' = [errMsg EXCEPT ![r] = msg]
          /\ Catch(r, ValidationError(msg))
  /\ UNCHANGED <<tokenList, memo, rateBody, resp, order, calls, built, fnIn, fnOut>>

\* both validations pass: quoter.getPrice is called and awaited
CallGetPrice(r) ==
  /\ pc[r] = "init"
  /\ \E cq \in CtxQueries :
       LET q == preprocessQuote(reqOf(cq))
       IN /\ validateNewOrderRequest(q.amount, q.uniqId, q.userAddr) = ""
          /\ req' = [req EXCEPT ![r] = reqOf(cq)]
  /\ calls' = [calls EXCEPT ![r] = Append(@, "getPrice")]
  /\ pc' = [pc EXCEPT ![r] = "awaitPrice"]
  /\ UNCHANGED <<tokenList, memo, errMsg, rateBody, resp, order, body, ret, built, fnIn, fnOut>>

\* requestMarketMaker rejects: getPrice, or the quote's conversion, failed
RequestMarketMakerRejects(r) ==
  /\ pc[r] = "awaitPrice"
  /\ \E e \in Thrown : Catch(r, e)
  /\ UNCHANGED <<tokenList, memo, req, errMsg, rateBody, resp, order, calls, built, fnIn, fnOut>>

\* _getBaseTokenByAddress: baseTokenAddr is compared as it was passed
getBaseTokenByAddressUncached(baseTokenAddr, list) ==
  LET i == FindIndex([k \in DOMAIN list |->
                        ToLowerCase(list[k].contractAddress) = baseTokenAddr])
  IN IF i = 0 THEN NotFound ELSE Found(list[i])

\* memoize(_getBaseTokenByAddress): lodash keys the cache by the first
\* argument alone, and keeps every result, undefined included
getBaseTokenByAddress(cache, baseTokenAddr, list) ==
  IF baseTokenAddr \in DOMAIN cache
    THEN cache[baseTokenAddr]
    ELSE getBaseTokenByAddressUncached(baseTokenAddr, list)

memoAfter(cache, baseTokenAddr, list) ==
  IF baseTokenAddr \in DOMAIN cache
    THEN cache
    ELSE (baseTokenAddr :> getBaseTokenByAddressUncached(baseTokenAddr, list)) @@ cache

\* what the code after the await of requestMarketMaker computes first
assembled(r, rb) ==
  getOrderAndFeeFactor(preprocessQuote(req[r]), rb.rate, tokenList, MainTokenConfigs,
                       MainConfig, MainEnv)

quoteBounds(rb) == [rate |-> rb.rate, minAmount |-> rb.minAmount, maxAmount |-> rb.maxAmount]

\* getOrderAndFeeFactor throws: a token of the pair is not in the list
TokenLookupFails(r) ==
  /\ pc[r] = "awaitPrice"
  /\ \E pr \in PriceResults :
       /\ ~assembled(r, rateBodyOf(pr)).ok
       /\ rateBody' = [rateBody EXCEPT ![r] = rateBodyOf(pr)]
  /\ Catch(r, TypeError)
  /\ UNCHANGED <<tokenList, memo, req, errMsg, resp, order, calls, built, fnIn, fnOut>>

\* case AMMV1 / case AMMV2: bounds from the memoized base token, then the
\* synchronous builder, then the stamp and ctx.body
DispatchAMM(r, tag) ==
  /\ pc[r] = "awaitPrice"
  /\ preprocessQuote(req[r]).protocol = tag
  /\ \E pr \in PriceResults :
       LET rb == rateBodyOf(pr)
           asm == assembled(r, rb)
           key == ToLowerCase(preprocessQuote(req[r]).baseAddress)
           baseToken == getBaseTokenByAddress(memo, key, tokenList)
       IN /\ asm.ok
          /\ rateBody' = [rateBody EXCEPT ![r] = rb]
          /\ order' = [order EXCEPT ![r] = asm.order]
          /\ memo' = memoAfter(memo, key, tokenList)
          /\ IF ~baseToken.found
               THEN /\ Catch(r, TypeError)
                    /\ resp' = [resp EXCEPT ![r] = quoteBounds(rb)]
                    /\ UNCHANGED <<calls, built>>
               ELSE LET rsp == [rate |-> rb.rate,
                                minAmount |-> baseToken.token.minTradeAmount,
                                maxAmount |-> baseToken.token.maxTradeAmount]
                    IN /\ calls' = [calls EXCEPT ![r] = Append(@, tag)]
                       /\ \/ \E e \in Thrown :
                               /\ Catch(r, e)
                               /\ resp' = [resp EXCEPT ![r] = rsp]
                               /\ UNCHANGED built
                          \/ \E answer \in BuilderReturns(asm.order) :
                               Finish(r, rsp, rb, tag, answer)
  /\ UNCHANGED <<tokenList, req, errMsg, fnIn, fnOut>>

DispatchAMMV1(r) == DispatchAMM(r, "AMMV1")

DispatchAMMV2(r) == DispatchAMM(r, "AMMV2")

\* case PMMV5 / RFQV1 / RFQV2: the signer is called and awaited
DispatchSigner(r, tag) ==
  /\ pc[r] = "awaitPrice"
  /\ preprocessQuote(req[r]).protocol = tag
  /\ \E pr \in PriceResults :
       LET rb == rateBodyOf(pr)
           asm == assembled(r, rb)
       IN /\ asm.ok
          /\ rateBody' = [rateBody EXCEPT ![r] = rb]
          /\ order' = [order EXCEPT ![r] = asm.order]
          /\ resp' = [resp EXCEPT ![r] = quoteBounds(rb)]
  /\ calls' = [calls EXCEPT ![r] = Append(@, tag)]
  /\ pc' = [pc EXCEPT ![r] = "awaitSigner"]
  /\ UNCHANGED <<tokenList, memo, req, errMsg, body, ret, built, fnIn, fnOut>>

DispatchPMMV5(r) == DispatchSigner(r, "PMMV5")

DispatchRFQV1(r) == DispatchSigner(r, "RFQV1")

DispatchRFQV2(r) == DispatchSigner(r, "RFQV2")

\* a switch whose default falls through to the PMMV5 signer
DispatchUnrecognizedFallsThrough(r) ==
  /\ pc[r] = "awaitPrice"
  /\ preprocessQuote(req[r]).protocol \notin Protocols
  /\ \E pr \in PriceResults :
       LET rb == rateBodyOf(pr)
           asm == assembled(r, rb)
       IN /\ asm.ok
          /\ rateBody' = [rateBody EXCEPT ![r] = rb]
          /\ order' = [order EXCEPT ![r] = asm.order]
          /\ resp' = [resp EXCEPT ![r] = quoteBounds(rb)]
  /\ calls' = [calls EXCEPT ![r] = Append(@, "PMMV5")]
  /\ pc' = [pc EXCEPT ![r] = "awaitSigner"]
  /\ UNCHANGED <<tokenList, memo, req, errMsg, body, ret, built, fnIn, fnOut>>

\* default: throw new Error('Unrecognized protocol: ' + protocol)
DispatchUnrecognized(r) ==
  /\ pc[r] = "awaitPrice"
  /\ preprocessQuote(req[r]).protocol \notin Protocols
  /\ \E pr \in PriceResults :
       LET rb == rateBodyOf(pr)
           asm == assembled(r, rb)
       IN /\ asm.ok
          /\ rateBody' = [rateBody EXCEPT ![r] = rb]
          /\ order' = [order EXCEPT ![r] = asm.order]
          /\ resp' = [resp EXCEPT ![r] = quoteBounds(rb)]
  /\ Catch(r, [kind |-> "Error",
               message |-> "Unrecognized protocol: " \o preprocessQuote(req[r]).protocol])
  /\ UNCHANGED <<tokenList, memo, req, errMsg, calls, built, fnIn, fnOut>>

\* the signer's promise resolves: the stamp and ctx.body
SignerResolves(r) ==
  /\ pc[r] = "awaitSigner"
  /\ \E answer \in BuilderReturns(order[r]) :
       Finish(r, resp[r], rateBody[r], preprocessQuote(req[r]).protocol, answer)
  /\ UNCHANGED <<tokenList, memo, req, errMsg, rateBody, order, calls, fnIn, fnOut>>

\* the signer throws or its promise rejects
SignerRejects(r) ==
  /\ pc[r] = "awaitSigner"
  /\ \E e \in Thrown : Catch(r, e)
  /\ UNCHANGED <<tokenList, memo, req, errMsg, rateBody, resp, order, calls, built, fnIn, fnOut>>

\* the token-list updater installs another list
RefreshTokenList ==
  /\ \E l \in TokenLists \ {tokenList} : tokenList' = l
  /\ UNCHANGED <<memo, pc, req, errMsg, rateBody, resp, order, body, ret, calls,
                 built, fnIn, fnOut>>

Init ==
  /\ tokenList \in TokenLists
  /\ memo = <<>>
  /\ pc = [r \in Reqs |-> "init"]
  /\ req = [r \in Reqs |-> None]
  /\ errMsg = [r \in Reqs |-> ""]
  /\ rateBody = [r \in Reqs |-> None]
  /\ resp = [r \in Reqs |-> None]
  /\ order = [r \in Reqs |-> None]
  /\ body = [r \in Reqs |-> Unset]
  /\ ret = [r \in Reqs |-> Pending]
  /\ calls = [r \in Reqs |-> <<>>]
  /\ built = [r \in Reqs |-> None]
  /\ fnIn = None
  /\ fnOut = None

Next ==
  \/ \E r \in Reqs : PreprocessThrows(r)
  \/ \E r \in Reqs : ValidationFails(r)
  \/ \E r \in Reqs : NewOrderValidationFails(r)
  \/ \E r \in Reqs : CallGetPrice(r)
  \/ \E r \in Reqs : RequestMarketMakerRejects(r)
  \/ \E r \in Reqs : TokenLookupFails(r)
  \/ \E r \in Reqs : DispatchAMMV1(r)
  \/ \E r \in Reqs : DispatchAMMV2(r)
  \/ \E r \in Reqs : DispatchPMMV5(r)
  \/ \E r \in Reqs : DispatchRFQV1(r)
  \/ \E r \in Reqs : DispatchRFQV2(r)
  \/ \E r \in Reqs : DispatchUnrecognized(r)
  \/ \E r \in Reqs : SignerResolves(r)
  \/ \E r \in Reqs : SignerRejects(r)
  \/ RefreshTokenList

Spec == Init /\ [][Next]_vars

-----------------------------------------------------------------------------
(* getOrderAndFeeFactor on its own: the inputs are drawn, then it is run   *)

MaxAmountDigits == 12
MaxFractionDigits == 3
MaxRate == 7
MaxDecimals == 18

BaseQuery ==
  [protocol |-> "PMMV5", side |-> "BUY", uniqId |-> "uid-1", baseAddress |-> "0xA0B8",
   quoteAddress |-> "0xdac1", amount |-> Dec(10, 0), userAddr |-> "0x22BB",
   feefactor |-> JUndef]

BaseInput ==
  [q |-> BaseQuery, rate |-> 2, list |-> <<TokenA(1, 100), TokenB>>,
   tokenConfigs |-> <<>>, config |-> MainConfig, env |-> MainEnv]

\* the three sources of the fee factor, with 0, negative, non-numeric and
\* absent values, for either side
FeeInputs ==
  {[BaseInput EXCEPT !.q.side = side, !.q.feefactor = f, !.tokenConfigs = tc,
                     !.config.feeFactor = c] :
     side \in {"BUY", "SELL"},
     f \in {JUndef, JNum(0), JNum(30), JNum(0 - 1), JStr("30"), JStr("0"),
            JStr("-1"), JStr("abc")},
     tc \in {<<>>} \cup
            {<<[symbol |-> sym, feeFactor |-> pf]>> :
               sym \in {"A", "B"}, pf \in {JUndef, JNum(0), JNum(25)}},
     c \in {JUndef, JNum(0), JNum(20), JStr("30")}}

NativeToken == Token("ETH", ETH_ADDRESS, 18, 4, 1, 100)

LowerCaseConfig ==
  [feeFactor |-> JNum(20), wethContractAddress |-> "0xc02a",
   mmProxyContractAddress |-> "0x11aa", userProxyContractAddress |-> "0x22bb",
   tokenlonExchangeContractAddress |-> "0x33cc", exchangeContractAddress |-> "0x44dd",
   orderExpirationSeconds |-> 600]

MixedCaseConfig == [MainConfig EXCEPT !.userProxyContractAddress = "0x22BB"]

\* every protocol and side, pairs with the native asset as base or as quote,
\* configurations and registries in lower and in mixed case
AddressInputs ==
  {[BaseInput EXCEPT !.q.protocol = p, !.q.side = side, !.q.baseAddress = pair[1],
                     !.q.quoteAddress = pair[2], !.list = l, !.config = c,
                     !.env.lowerCases = lc] :
     p \in Protocols,
     side \in {"BUY", "SELL"},
     pair \in {<<ETH_ADDRESS, "0xdac1">>, <<"0xA0B8", ETH_ADDRESS>>,
               <<"0xa0b8", "0xdac1">>},
     l \in {<<TokenA(1, 100), TokenB, NativeToken>>},
     c \in {MixedCaseConfig, LowerCaseConfig},
     lc \in BOOLEAN}

\* amounts with up to MaxFractionDigits fractional digits, integer rates,
\* tokens of 6, 8 and 18 decimals with 2 or 4 digits of display precision
AmountInputs ==
  {[BaseInput EXCEPT !.q.side = side, !.q.amount = Dec(m, 0 - e), !.rate = rate,
                     !.list = <<Token("A", "0xA0B8", bd[1], bd[2], 1, 100),
                                Token("B", "0xdac1", qd[1], qd[2], 5, 500)>>,
                     !.env.roundingMode = rm] :
     side \in {"BUY", "SELL"},
     m \in 1..MaxAmountDigits,
     e \in 0..MaxFractionDigits,
     rate \in 1..MaxRate,
     bd \in {6, 8, 18} \X {2, 4},
     qd \in {6, 8, 18} \X {2, 4},
     rm \in RoundingModes}

\* the worked request: 18-decimal base token, 6-decimal quote token, amount
\* "10" at rate 200, under every protocol, for either side
EndToEndInputs ==
  {[BaseInput EXCEPT !.q.protocol = p, !.q.side = side, !.q.amount = Dec(10, 0),
                     !.rate = 200, !.list = <<TokenA(1, 100), TokenB>>,
                     !.env.roundingMode = rm] :
     p \in Protocols,
     side \in {"BUY", "SELL"},
     rm \in RoundingModes}

\* tokens of every number of decimals up to MaxDecimals, with amounts whose
\* quotient (BUY) or product (SELL) by the rate has more than 8 fractional
\* digits, so that the cut shows the number of digits kept
DecimalsInputs ==
  {[BaseInput EXCEPT !.q.side = sa[1], !.q.amount = sa[2], !.rate = 3,
                     !.list = <<Token("A", "0xA0B8", bd, 4, 1, 100),
                                Token("B", "0xdac1", qd, 4, 5, 500)>>,
                     !.env.roundingMode = rm] :
     sa \in {<<"BUY", Dec(1, 0)>>, <<"BUY", Dec(2, 0)>>,
             <<"SELL", Dec(111111111, 0 - 9)>>},
     bd \in 0..MaxDecimals,
     qd \in 0..MaxDecimals,
     rm \in RoundingModes}

PipelineIdle ==
  /\ tokenList = <<TokenA(1, 100), TokenB>>
  /\ memo = <<>>
  /\ pc = [r \in Reqs |-> "init"]
  /\ req = [r \in Reqs |-> None]
  /\ errMsg = [r \in Reqs |-> ""]
  /\ rateBody = [r \in Reqs |-> None]
  /\ resp = [r \in Reqs |-> None]
  /\ order = [r \in Reqs |-> None]
  /\ body = [r \in Reqs |-> Unset]
  /\ ret = [r \in Reqs |-> Pending]
  /\ calls = [r \in Reqs |-> <<>>]
  /\ built = [r \in Reqs |-> None]

InitOrder ==
  /\ PipelineIdle
  /\ fnIn \in FeeInputs \cup AddressInputs \cup AmountInputs \cup EndToEndInputs
               \cup DecimalsInputs
  /\ fnOut = None

\* const order = getOrderAndFeeFactor(query, rate, tokenList, tokenConfigs, config)
AssembleOrder ==
  /\ fnOut = None
  /\ fnOut' = getOrderAndFeeFactor(fnIn.q, fnIn.rate, fnIn.list, fnIn.tokenConfigs,
                                   fnIn.config, fnIn.env)
  /\ UNCHANGED <<fnIn, pipelineVars>>

NextOrder == AssembleOrder

SpecOrder == InitOrder /\ [][NextOrder]_vars

-----------------------------------------------------------------------------
(* sendRequest and jsonrpc.get on their own: one call, one HTTP exchange   *)

validateStatus(status) == status >= 200 /\ status < 300

\* const error = new Error(responseMessage); error.message = responseMessage
ErrorOf(responseMessage) == JObj("Error", [message |-> responseMessage])

\* responseMessage is assigned in two of the three branches; where the
\* error has a response with an object as data, only the local message is
\* reassigned and responseMessage stays undefined
newError(message, url) ==
  IF isObject(message) /\ Truthy(Prop(message, "message"))
    THEN IF /\ isObject(Prop(message, "response"))
            /\ isObject(Prop(Prop(message, "response"), "data"))
           THEN ErrorOf(JUndef)
           ELSE ErrorOf(JStr(url \o ": " \o TemplateString(Prop(message, "message"))))
    ELSE ErrorOf(JStr(url \o ": " \o TemplateString(message)))

Fulfilled(v) == [state |-> "resolved", value |-> v]
RejectedWith(e) == [state |-> "rejected", error |-> e]

Returned(v) == [threw |-> FALSE, value |-> v]
Threw(e) == [threw |-> TRUE, error |-> e]

\* what the client settles with: the response, or an Error that carries
\* the response when validateStatus refused its status, or an Error
\* without response when none arrived (network failure, timeout)
Response(status, data) == JObj("Object", [status |-> JNum(status), data |-> data])

AxiosError(msg, response) ==
  JObj("Error", [message |-> JStr(msg), response |-> response])

TransportError(msg) == JObj("Error", [message |-> JStr(msg)])

StatusMessage(status) == "Request failed with status code " \o NumberText[status]

\* client(rConfig) with validateStatus in rConfig
client(reply) ==
  IF reply.kind = "transport"
    THEN RejectedWith(TransportError(reply.message))
    ELSE IF validateStatus(reply.status)
      THEN Fulfilled(Response(reply.status, reply.data))
      ELSE RejectedWith(AxiosError(StatusMessage(reply.status),
                                   Response(reply.status, reply.data)))

\* the then handler of sendRequest: resolve(res.data) or reject(newError(...))
sendRequestThen(res, url) ==
  IF Truthy(Prop(res, "data"))
    THEN Fulfilled(Prop(res, "data"))
    ELSE RejectedWith(newError(JStr("null response"), url))

\* the catch handler of sendRequest
sendRequestCatch(error, url) == RejectedWith(newError(error, url))

\* a then handler that lets a missing result through
getThenKeepsUndefined(data, url) ==
  IF Truthy(Prop(data, "error"))
    THEN Threw(newError(Prop(data, "error"), url))
    ELSE Returned(Prop(data, "result"))

\* the then handler of jsonrpc.get
getThen(data, url) ==
  IF Truthy(Prop(data, "error"))
    THEN Threw(newError(Prop(data, "error"), url))
    ELSE IF isUndefined(Prop(data, "result"))
      THEN Threw(newError(JStr("server result is undefined"), url))
      ELSE Returned(Prop(data, "result"))

Urls == {"http://mm/rpc", "http://signer/rpc"}

Statuses == {199, 200, 299, 300, 404, 500}

\* the error member of a JSON-RPC reply: strings, other scalars, objects
\* with and without a message
RpcErrors ==
  {JStr("boom"), JStr(""), JNull, JNum(0), JNum(1), JBool(FALSE),
   JObj("Object", [message |-> JStr("execution reverted"), code |-> JNum(1)]),
   JObj("Object", [code |-> JNum(1)]),
   JObj("Object", [message |-> JStr(""), code |-> JNum(1)])}

RpcResults ==
  {JNull, JNum(0), JStr(""), JStr("0x1"), JBool(FALSE),
   JObj("Object", [rate |-> JNum(1)])}

\* response bodies as the client hands them over: empty, JSON scalars, text
\* that is not JSON, and JSON-RPC objects with or without result and error
Bodies ==
  {JStr(""), JNull, JNum(0), JBool(FALSE), JStr("<html>"),
   JObj("Object", [id |-> JNum(1)])}
  \cup {JObj("Object", [id |-> JNum(1), result |-> x]) : x \in RpcResults}
  \cup {JObj("Object", [id |-> JNum(1), error |-> e]) : e \in RpcErrors}
  \cup {JObj("Object", [id |-> JNum(1), error |-> e, result |-> x]) :
          e \in RpcErrors, x \in RpcResults}

Replies ==
  {[kind |-> "response", status |-> st, data |-> d] : st \in Statuses, d \in Bodies}
  \cup {[kind |-> "transport", message |-> m] :
          m \in {"Network Error", "timeout of 10000ms exceeded"}}

RpcInputs == {[url |-> u, reply |-> rp] : u \in Urls, rp \in Replies}

\* the promises of one call of jsonrpc.get: the client's, sendRequest's and
\* the one get returns, with the number of times the last one was settled
RpcIdle == [client |-> Pending, sendRequest |-> Pending, get |-> Pending, settled |-> 0]

InitRpc ==
  /\ PipelineIdle
  /\ fnIn \in RpcInputs
  /\ fnOut = RpcIdle

\* the HTTP exchange ends and the client's promise settles
ClientSettles ==
  /\ fnOut.client = Pending
  /\ fnOut' = [fnOut EXCEPT !.client = client(fnIn.reply)]
  /\ UNCHANGED <<fnIn, pipelineVars>>

\* .then((res) => ...) of sendRequest
SendRequestThen ==
  /\ fnOut.client.state = "resolved"
  /\ fnOut.sendRequest = Pending
  /\ fnOut' = [fnOut EXCEPT !.sendRequest = sendRequestThen(fnOut.client.value, fnIn.url)]
  /\ UNCHANGED <<fnIn, pipelineVars>>

\* .catch((error) => ...) of sendRequest
SendRequestCatch ==
  /\ fnOut.client.state = "rejected"
  /\ fnOut.sendRequest = Pending
  /\ fnOut' = [fnOut EXCEPT !.sendRequest = sendRequestCatch(fnOut.client.error, fnIn.url)]
  /\ UNCHANGED <<fnIn, pipelineVars>>

\* .then((data) => ...) of jsonrpc.get; what it throws passes through
\* .catch((err) => { throw err })
GetThen ==
  /\ fnOut.sendRequest.state = "resolved"
  /\ fnOut.get = Pending
  /\ LET out == getThen(fnOut.sendRequest.value, fnIn.url)
     IN fnOut' = [fnOut EXCEPT
                    !.get = IF out.threw THEN RejectedWith(out.error)
                                         ELSE Fulfilled(out.value),
                    !.settled = @ + 1]
  /\ UNCHANGED <<fnIn, pipelineVars>>

\* sendRequest rejected: .catch((err) => { throw err }) of jsonrpc.get
GetCatch ==
  /\ fnOut.sendRequest.state = "rejected"
  /\ fnOut.get = Pending
  /\ fnOut' = [fnOut EXCEPT !.get = RejectedWith(fnOut.sendRequest.error),
                            !.settled = @ + 1]
  /\ UNCHANGED <<fnIn, pipelineVars>>

NextRpc ==
  \/ ClientSettles
  \/ SendRequestThen
  \/ SendRequestCatch
  \/ GetThen
  \/ GetCatch

\* the request carries a timeout and the handlers are run by the event
\* loop: no enabled step is postponed for ever
SpecRpc == InitRpc /\ [][NextRpc]_vars /\ WF_vars(NextRpc)

-----------------------------------------------------------------------------
(* Claims about newOrder                                                   *)

Succeeded(r) == pc[r] = "done" /\ ret[r].state = "resolved" /\ ret[r].type = "object"
Failed(r) == pc[r] = "done" /\ ~Succeeded(r)

IsFailureShape(b) ==
  /\ DOMAIN b = {"result", "exchangeable", "message"}
  /\ b.result = FALSE
  /\ b.exchangeable = FALSE

\* the builders and signers called for request r, in order
BuilderCalls(r) == SelectSeq(calls[r], LAMBDA c : c # "getPrice")

\* C1: whatever a failing step throws or rejects with, the promise of
\* newOrder resolves and ctx.body is the failure shape.
C1_EveryFailureBecomesAResponse ==
  \A r \in Reqs :
    Failed(r) => ret[r].state = "resolved" /\ IsFailureShape(body[r])

\* C2: the value newOrder resolves with is the response object written to
\* ctx.body, on success and on failure.
C2_ReturnValueIsTheBody ==
  \A r \in Reqs :
    ret[r].state = "resolved" => ret[r].type = "object" /\ ret[r].value = body[r]

\* C3: the ctx.body of a failed request has no order, rate, minAmount or
\* maxAmount; a failure response written is exactly result = false,
\* exchangeable = false and a message, however far resp had been filled.
C3_FailureCarriesNoPartialResponse ==
  \A r \in Reqs :
    Failed(r) =>
      /\ DOMAIN body[r] \cap {"order", "rate", "minAmount", "maxAmount"} = {}
      /\ body[r] # Unset => IsFailureShape(body[r])

\* a request failed by its AMM builder, after the bounds were overridden
C3_Witness ==
  \E r \in Reqs :
    /\ Failed(r)
    /\ IsFailureShape(body[r])
    /\ order[r] # None
    /\ resp[r] # None
    /\ resp[r].minAmount # rateBody[r].minAmount
    /\ BuilderCalls(r) # <<>>

\* C4: when a validator returns a message, getPrice and the builders are
\* never called and the failure response carries exactly that message.
C4_ValidationPrecedesExternalCalls ==
  \A r \in Reqs :
    errMsg[r] # "" =>
      /\ calls[r] = <<>>
      /\ pc[r] = "done"
      /\ IsFailureShape(body[r])
      /\ body[r].message = errMsg[r]

\* a request without uniqId, rejected by validateNewOrderRequest
C4_Witness ==
  \E r \in Reqs :
    /\ pc[r] = "done"
    /\ req[r].uniqId = Undefined
    /\ errMsg[r] = "uniqId is required"
    /\ body[r].message = "uniqId is required"

\* at most one builder per request, and only the one of the request's protocol
OneMatchingBuilder(r) ==
  /\ Len(BuilderCalls(r)) <= 1
  /\ \A i \in DOMAIN BuilderCalls(r) :
       /\ req[r] # None
       /\ BuilderCalls(r)[i] = preprocessQuote(req[r]).protocol
       /\ BuilderCalls(r)[i] \in Protocols

UnknownTag(r) == req[r] # None /\ preprocessQuote(req[r]).protocol \notin Protocols

\* C5, as stated: at most one builder per request and only the matching
\* one; a request with a tag outside the five calls no builder and its
\* response is the failure 'Unrecognized protocol: <tag>' without an order.
C5_AsStated ==
  \A r \in Reqs :
    /\ OneMatchingBuilder(r)
    /\ UnknownTag(r) =>
         /\ BuilderCalls(r) = <<>>
         /\ (pc[r] = "done" /\ body[r] # Unset) =>
              /\ IsFailureShape(body[r])
              /\ body[r].message =
                   "Unrecognized protocol: " \o preprocessQuote(req[r]).protocol

\* C5, amended: at most one builder per request and only the matching one;
\* a request with a tag outside the five calls no builder and never gets an
\* order in its response, and once it reaches the switch (validation, the
\* price call and the assembly succeeded) its response is the failure
\* 'Unrecognized protocol: <tag>'.
C5_Dispatch ==
  \A r \in Reqs :
    /\ OneMatchingBuilder(r)
    /\ UnknownTag(r) =>
         /\ BuilderCalls(r) = <<>>
         /\ "order" \notin DOMAIN body[r]
         /\ ~Succeeded(r)
         /\ (pc[r] = "done" /\ order[r] # None) =>
              /\ IsFailureShape(body[r])
              /\ body[r].message =
                   "Unrecognized protocol: " \o preprocessQuote(req[r]).protocol

\* one request ended by the default branch, another that called its builder
C5_Witness ==
  \E r, s \in Reqs :
    /\ pc[r] = "done"
    /\ req[r].protocol = "PMMV4"
    /\ body[r] = [result |-> FALSE, exchangeable |-> FALSE,
                  message |-> "Unrecognized protocol: PMMV4"]
    /\ BuilderCalls(s) = <<"RFQV2">>

\* C6: in a successful response order.quoteId is the quote id of the rate
\* body obtained for the request and order.protocol is the request's
\* protocol, whatever the builder returned and the assembler had set.
C6_StampedByDispatcher ==
  \A r \in Reqs :
    Succeeded(r) =>
      /\ body[r].order.quoteId = rateBody[r].quoteId
      /\ body[r].order.protocol = preprocessQuote(req[r]).protocol

\* a success whose builder returned its own quoteId and protocol, for an
\* order the assembler had given the request's uniqId
C6_Witness ==
  \E r \in Reqs :
    /\ Succeeded(r)
    /\ built[r].kind = "order"
    /\ built[r].order.quoteId = "builder-id"
    /\ built[r].order.protocol = "BUILDER"
    /\ order[r].quoteId = "uid-1"
    /\ body[r].order.quoteId = "mmsk--q-1"

-----------------------------------------------------------------------------
(* Claims about getOrderAndFeeFactor                                       *)

Assembled == fnOut # None /\ fnOut.ok

MakerTokenIn == getTokenByAddress(fnIn.list, IF fnIn.q.side = "BUY"
                                               THEN fnIn.q.baseAddress
                                               ELSE fnIn.q.quoteAddress).token
TakerTokenIn == getTokenByAddress(fnIn.list, IF fnIn.q.side = "BUY"
                                               THEN fnIn.q.quoteAddress
                                               ELSE fnIn.q.baseAddress).token

\* the override parses as a non-negative number
OverrideParses(f) == ToNumber(f).t = "number" /\ ToNumber(f).v >= 0

\* the override configured for the maker token, if one is present
PerTokenOverride ==
  LET i == FindIndex([k \in DOMAIN fnIn.tokenConfigs |->
                        fnIn.tokenConfigs[k].symbol = MakerTokenIn.symbol])
  IN IF i = 0 THEN JUndef ELSE fnIn.tokenConfigs[i].feeFactor

FeeFactorByPriority ==
  IF OverrideParses(fnIn.q.feefactor) THEN ToNumber(fnIn.q.feefactor)
  ELSE IF PerTokenOverride.t # "undefined" THEN PerTokenOverride
  ELSE IF fnIn.config.feeFactor.t # "undefined" THEN ToNumber(fnIn.config.feeFactor)
  ELSE JNum(10)

\* C7: the order's feeFactor is the caller's override if it parses as a
\* non-negative number, else the maker token's configured override if
\* present, else the global default, else 10, for every input.
C7_FeeFactorByStrictPriority ==
  Assembled => fnOut.order.feeFactor = FeeFactorByPriority

IsNative(token) == ToLowerCase(token.contractAddress) = ETH_ADDRESS

SameAddress(a, b) == ToLowerCase(a) = ToLowerCase(b)

\* C8: for a native taker token an RFQV2 order's takerAssetAddress is the
\* token's raw contract address and every other protocol's is the
\* wrapped-native address; a native maker token's makerAssetAddress is the
\* wrapped-native address under all five protocols.
C8_NativeAssetSubstitution ==
  Assembled =>
    /\ IsNative(TakerTokenIn) =>
         IF fnIn.q.protocol = "RFQV2"
           THEN fnOut.order.takerAssetAddress = TakerTokenIn.contractAddress
           ELSE /\ SameAddress(fnOut.order.takerAssetAddress,
                               fnIn.config.wethContractAddress)
                /\ fnOut.order.takerAssetAddress # TakerTokenIn.contractAddress
    /\ IsNative(MakerTokenIn) =>
         SameAddress(fnOut.order.makerAssetAddress, fnIn.config.wethContractAddress)

\* an RFQV2 order assembled for a native taker token
C8_Witness ==
  /\ Assembled
  /\ fnIn.q.protocol = "RFQV2"
  /\ IsNative(TakerTokenIn)
  /\ fnOut.order.takerAssetAddress = ETH_ADDRESS
  /\ ~SameAddress(ETH_ADDRESS, fnIn.config.wethContractAddress)

\* C9: every address field of the assembled order is lower-case (stated
\* here for the builds whose getWethAddrIfIsEth lower-cases its result, so
\* that only the fields this file fills decide it).
C9_AddressesLowerCase ==
  (Assembled /\ fnIn.env.lowerCases) =>
    /\ IsLowerCase(fnOut.order.makerAddress)
    /\ IsLowerCase(fnOut.order.takerAddress)
    /\ IsLowerCase(fnOut.order.makerAssetAddress)
    /\ IsLowerCase(fnOut.order.takerAssetAddress)
    /\ IsLowerCase(fnOut.order.senderAddress)
    /\ IsLowerCase(fnOut.order.feeRecipientAddress)
    /\ IsLowerCase(fnOut.order.exchangeAddress)

\* C10: for BUY the order's maker amount over its taker amount, both in
\* human units, is at most the rate: maker <= rate * taker.
C10_BuyRateNotExceeded ==
  (Assembled /\ fnIn.q.side = "BUY") =>
    DecLE(HumanUnits(fnOut.order.makerAssetAmount, MakerTokenIn.decimal),
          Times(HumanUnits(fnOut.order.takerAssetAmount, TakerTokenIn.decimal),
                fnIn.rate))

\* C11: for SELL the order's maker amount is at most the rate times its
\* taker amount, both in human units, for every amount, rate, maker decimals
\* and taker precision: maker <= rate * taker.
C11_SellRateNotExceeded ==
  (Assembled /\ fnIn.q.side = "SELL") =>
    DecLE(HumanUnits(fnOut.order.makerAssetAmount, MakerTokenIn.decimal),
          Times(HumanUnits(fnOut.order.takerAssetAmount, TakerTokenIn.decimal),
                fnIn.rate))

BaseTokenIn == getTokenByAddress(fnIn.list, fnIn.q.baseAddress).token
QuoteTokenIn == getTokenByAddress(fnIn.list, fnIn.q.quoteAddress).token

\* the number of fractional digits of a decimal
FractionDigits(x) == IF Norm(x).e < 0 THEN 0 - Norm(x).e ELSE 0

\* a SELL request whose amount fits the precision of the token it is cut to
\* (the base token), so that its amounts are amount x rate and amount exactly
ExactSell ==
  /\ Assembled
  /\ fnIn.q.side = "SELL"
  /\ FractionDigits(fnIn.q.amount) <= BaseTokenIn.precision
  /\ FractionDigits(Times(fnIn.q.amount, fnIn.rate)) <= TRUNCATE_PRECISION

WorkedSell ==
  /\ Assembled
  /\ fnIn.q.side = "SELL"
  /\ fnIn.q.protocol = "PMMV5"
  /\ fnIn.q.amount = Dec(10, 0)
  /\ fnIn.rate = 200
  /\ BaseTokenIn.decimal = 18
  /\ QuoteTokenIn.decimal = 6

\* C12, as stated: for the worked SELL request (base of 18 decimals, quote
\* of 6, amount 10, rate 200, PMMV5) the maker amount is 2000 x 10^18 and the
\* taker amount 10 x 10^6; for SELL in general the maker amount is scaled by
\* the base token's decimals and the taker amount by the quote token's.
C12_AsStated ==
  /\ WorkedSell =>
       /\ fnOut.order.makerAssetAmount = Norm(Dec(2000, 18))
       /\ fnOut.order.takerAssetAmount = Norm(Dec(10, 6))
  /\ ExactSell =>
       /\ fnOut.order.makerAssetAmount =
            fromUnitToDecimalBN(Times(fnIn.q.amount, fnIn.rate), BaseTokenIn.decimal)
       /\ fnOut.order.takerAssetAmount =
            fromUnitToDecimalBN(Norm(fnIn.q.amount), QuoteTokenIn.decimal)

\* C12, amended: for the worked SELL request the maker amount is
\* 2000 x 10^6 and the taker amount 10 x 10^18; for SELL in general the
\* maker amount is scaled by the quote token's decimals (the maker token)
\* and the taker amount by the base token's decimals (the taker token).
C12_SellScaling ==
  /\ WorkedSell =>
       /\ fnOut.order.makerAssetAmount = Norm(Dec(2000, 6))
       /\ fnOut.order.takerAssetAmount = Norm(Dec(10, 18))
  /\ ExactSell =>
       /\ fnOut.order.makerAssetAmount =
            fromUnitToDecimalBN(Times(fnIn.q.amount, fnIn.rate), QuoteTokenIn.decimal)
       /\ fnOut.order.takerAssetAmount =
            fromUnitToDecimalBN(Norm(fnIn.q.amount), BaseTokenIn.decimal)

\* the worked SELL request, assembled
C12_Witness ==
  /\ WorkedSell
  /\ ExactSell
  /\ fnOut.order.makerAssetAmount = Dec(2, 9)
  /\ fnOut.order.takerAssetAmount = Dec(1, 19)

\* the human-unit amount the calculator cut to findSuitablePrecision digits,
\* and the decimals of the token it belongs to
SuitablyCutAmount ==
  IF fnIn.q.side = "BUY"
    THEN HumanUnits(fnOut.order.takerAssetAmount, TakerTokenIn.decimal)
    ELSE HumanUnits(fnOut.order.makerAssetAmount, MakerTokenIn.decimal)

SuitablyCutDecimals ==
  IF fnIn.q.side = "BUY" THEN TakerTokenIn.decimal ELSE MakerTokenIn.decimal

SpecifiedPrecision(d) == IF d \in 0..7 THEN 6 ELSE 8

\* C13: findSuitablePrecision(d) is 6 for every d in 0..7 and 8 for every
\* d >= 8, and this is the number of fractional digits the calculator keeps
\* of a quotient or product that has more.
C13_FindSuitablePrecision ==
  /\ \A d \in 0..MaxDecimals : findSuitablePrecision(d) = SpecifiedPrecision(d)
  /\ (Assembled /\ fnIn \in DecimalsInputs) =>
       /\ findSuitablePrecision(SuitablyCutDecimals)
            = SpecifiedPrecision(SuitablyCutDecimals)
       /\ FractionDigits(SuitablyCutAmount) = SpecifiedPrecision(SuitablyCutDecimals)

\* a quotient cut for a taker token of exactly 8 decimals
C13_Witness ==
  /\ Assembled
  /\ fnIn \in DecimalsInputs
  /\ fnIn.q.side = "BUY"
  /\ TakerTokenIn.decimal = 8
  /\ FractionDigits(SuitablyCutAmount) = 8

\* x cut to dp fractional digits, the digits beyond them dropped
Cut(x, dp) == ToFixed(x, dp, "ROUND_DOWN")

\* x / rate cut to dp fractional digits
CutQuotient(x, rate, dp) == DividedByToFixed(x, rate, dp, "ROUND_DOWN")

\* BUY: the maker token is the base token and the taker token the quote
\* token; SELL: the inverse (seen in the order's asset addresses)
RolesFollowSide ==
  LET makerIn == IF fnIn.q.side = "BUY" THEN BaseTokenIn ELSE QuoteTokenIn
      takerIn == IF fnIn.q.side = "BUY" THEN QuoteTokenIn ELSE BaseTokenIn
  IN /\ ~IsNative(makerIn) =>
          SameAddress(fnOut.order.makerAssetAddress, makerIn.contractAddress)
     /\ ~IsNative(takerIn) =>
          SameAddress(fnOut.order.takerAssetAddress, takerIn.contractAddress)

\* each amount is the cut amount scaled by 10^(decimals of its own token)
AmountsFollowSide ==
  IF fnIn.q.side = "BUY"
    THEN /\ fnOut.order.makerAssetAmount =
              fromUnitToDecimalBN(Cut(fnIn.q.amount, BaseTokenIn.precision),
                                  BaseTokenIn.decimal)
         /\ fnOut.order.takerAssetAmount =
              fromUnitToDecimalBN(
                CutQuotient(fnIn.q.amount, fnIn.rate,
                            findSuitablePrecision(QuoteTokenIn.decimal)),
                QuoteTokenIn.decimal)
    ELSE /\ fnOut.order.makerAssetAmount =
              fromUnitToDecimalBN(
                Cut(Times(fnIn.q.amount, fnIn.rate),
                    findSuitablePrecision(QuoteTokenIn.decimal)),
                QuoteTokenIn.decimal)
         /\ fnOut.order.takerAssetAmount =
              fromUnitToDecimalBN(Cut(fnIn.q.amount, BaseTokenIn.precision),
                                  BaseTokenIn.decimal)

\* with no override in the query, a per-token override of 25 is the order's
\* fee factor exactly when it is configured for the maker token
FeeLookedUpForMaker ==
  (fnIn.q.feefactor = JUndef /\ fnIn.tokenConfigs # <<>>
     /\ fnIn.tokenConfigs[1].feeFactor = JNum(25)) =>
    (fnOut.order.feeFactor = JNum(25)
       <=> fnIn.tokenConfigs[1].symbol =
             (IF fnIn.q.side = "BUY" THEN BaseTokenIn ELSE QuoteTokenIn).symbol)

\* C14: roles and amounts follow the side: BUY has maker = base and taker =
\* quote, maker amount = amount cut to the maker token's precision, taker
\* amount = amount / rate cut to findSuitablePrecision(taker decimals); SELL
\* has maker = quote and taker = base, maker amount = amount x rate cut to
\* findSuitablePrecision(maker decimals), taker amount = amount cut to the
\* taker token's precision; each amount is scaled by 10^(decimals of its own
\* token) and the per-token fee override is looked up for the maker token.
C14_RolesAndAmountsFollowSide ==
  Assembled => RolesFollowSide /\ AmountsFollowSide /\ FeeLookedUpForMaker

-----------------------------------------------------------------------------
(* Claims about newOrder across requests                                   *)

AMMProtocols == {"AMMV1", "AMMV2"}

\* request r completes successfully in this step
Succeeds(r) == pc[r] # "done" /\ Succeeded(r)'

\* the base token of request r in the token list installed when r is served
CurrentBaseToken(r) ==
  getTokenByAddress(tokenList, preprocessQuote(req[r]).baseAddress).token

BoundsFromCurrentList ==
  \A r \in Reqs :
    Succeeds(r) =>
      IF preprocessQuote(req[r]).protocol \in AMMProtocols
        THEN /\ body'[r].minAmount = CurrentBaseToken(r).minTradeAmount
             /\ body'[r].maxAmount = CurrentBaseToken(r).maxTradeAmount
        ELSE /\ body'[r].minAmount = rateBody'[r].minAmount
             /\ body'[r].maxAmount = rateBody'[r].maxAmount

\* C15: over any sequence of requests and token-list refreshes, a successful
\* AMMV1 or AMMV2 response has the minTradeAmount and maxTradeAmount of the
\* base token in the token list current for that request as its minAmount
\* and maxAmount, and a successful PMMV5, RFQV1 or RFQV2 response has the
\* quote-derived ones.
C15_BoundsFromCurrentList == [][BoundsFromCurrentList]_vars

\* what is shared between the requests and outlives them: the cache of
\* the memoized base-token lookup (the token list is written by its
\* refresher only)
NoSharedWrites ==
  /\ memo' = memo
  /\ tokenList' # tokenList => \A r \in Reqs : pc'[r] = pc[r]

\* the bounds request r gets when it is the only request ever served: the
\* lookup starts from an empty cache
BoundsAlone(r) ==
  LET t == getBaseTokenByAddress(<<>>, ToLowerCase(preprocessQuote(req[r]).baseAddress),
                                 tokenList).token
  IN IF preprocessQuote(req[r]).protocol \in AMMProtocols
       THEN [minAmount |-> t.minTradeAmount, maxAmount |-> t.maxTradeAmount]
       ELSE [minAmount |-> rateBody'[r].minAmount, maxAmount |-> rateBody'[r].maxAmount]

SameAsAlone ==
  \A r \in Reqs :
    Succeeds(r) =>
      /\ body'[r].minAmount = BoundsAlone(r).minAmount
      /\ body'[r].maxAmount = BoundsAlone(r).maxAmount

\* C16: no step of newOrder writes state shared between requests, and the
\* response to a request is what it would be had the request run alone
\* against the same snapshots.
C16_NoSharedState == [][NoSharedWrites /\ SameAsAlone]_vars

\* the external calls of a request: getPrice once, then at most one
\* builder or signer
CallsAtMostOnceInOrder ==
  \A r \in Reqs :
    /\ calls[r] \in {<<>>, <<"getPrice">>} \cup {<<"getPrice", p>> : p \in Protocols}
    /\ Len(calls[r]) = 2 => (rateBody[r] # None /\ order[r] # None)

\* a request that passes both validations calls getPrice, and no later
\* step of the request calls it again or calls a builder a second time
CalledOncePerStep ==
  \A r \in Reqs :
    /\ (pc[r] = "init" /\ pc'[r] # "init" /\ errMsg'[r] = "" /\ calls'[r] # <<>>)
         => calls'[r] = <<"getPrice">>
    /\ (pc[r] = "init" /\ pc'[r] = "awaitPrice") => calls'[r] = <<"getPrice">>
    /\ pc[r] = "awaitPrice" =>
         \/ calls'[r] = calls[r]
         \/ \E p \in Protocols : calls'[r] = Append(calls[r], p) /\ order'[r] # None
    /\ pc[r] \in {"awaitSigner", "done"} => calls'[r] = calls[r]

\* a request whose price call or builder failed has ended in a failure
\* response
RejectionEndsInFailure ==
  \A r \in Reqs :
    (Failed(r) /\ calls[r] # <<>>) =>
      /\ ret[r].state = "resolved"
      /\ IsFailureShape(body[r])

\* C17: each request makes its two external calls at most once and in
\* order: getPrice exactly once for every request that passes validation,
\* a builder or signer only after getPrice resolved and the order was
\* assembled, and a rejection of either call ends the request in a failure
\* response without any retry.
C17_ExternalCallsOnceInOrder ==
  /\ [](CallsAtMostOnceInOrder /\ RejectionEndsInFailure)
  /\ [][CalledOncePerStep]_vars

\* the call discipline of C17 on its own: once each, in order, never retried
C17_NoRetry == [](CallsAtMostOnceInOrder) /\ [][CalledOncePerStep]_vars

-----------------------------------------------------------------------------
(* Claims about sendRequest and jsonrpc.get                                *)

\* the body of the reply, if one arrived
ReplyBody == IF fnIn.reply.kind = "response" THEN fnIn.reply.data ELSE JUndef

\* what the upstream said went wrong, for the exchange that was drawn: the
\* transport's message, the HTTP failure and the error of its JSON body, the
\* JSON-RPC error (its text, or its message when it is an object), or the
\* missing body or result
UpstreamCauses ==
  {"null response", "server result is undefined"}
  \cup (IF fnIn.reply.kind = "transport"
          THEN {fnIn.reply.message}
          ELSE {StatusMessage(fnIn.reply.status)}
               \cup (LET e == Prop(ReplyBody, "error")
                     IN IF isObject(e)
                          THEN (IF Truthy(Prop(e, "message"))
                                  THEN {TemplateString(Prop(e, "message"))} ELSE {})
                          ELSE IF Truthy(e) THEN {TemplateString(e)} ELSE {}))

\* the message of the error is the string '<url>: <cause>'
CarriesUpstreamContext(error) ==
  /\ Prop(error, "message").t = "string"
  /\ \E cause \in UpstreamCauses :
       Prop(error, "message").s = fnIn.url \o ": " \o cause

\* C18: every error sendRequest or jsonrpc.get rejects with has a defined
\* message of the form '<url>: <cause>' with the upstream context, for an
\* empty body, a transport error without response, an HTTP error with a
\* JSON body, and a JSON-RPC error that is a string or an object.
C18_RejectionsCarryUrlAndCause ==
  /\ fnOut.sendRequest.state = "rejected" => CarriesUpstreamContext(fnOut.sendRequest.error)
  /\ fnOut.get.state = "rejected" => CarriesUpstreamContext(fnOut.get.error)

\* the rejections other than that of an HTTP error with a JSON object as
\* body and that of a JSON-RPC error object without message
C18_OtherShapes ==
  (/\ ~(fnIn.reply.kind = "response" /\ ~validateStatus(fnIn.reply.status)
         /\ isObject(ReplyBody))
   /\ ~(isObject(Prop(ReplyBody, "error"))
         /\ ~Truthy(Prop(Prop(ReplyBody, "error"), "message"))))
    => C18_RejectionsCarryUrlAndCause

HasErrorField(data) == isObject(data) /\ "error" \in DOMAIN data.f
HasResultField(data) == isObject(data) /\ "result" \in DOMAIN data.f

SuccessStatus == fnIn.reply.kind = "response" /\ fnIn.reply.status \in 200..299

\* the promise of get is settled at most once, a resolution carries the
\* result member of the body and never undefined
ResolvesWithResult ==
  /\ fnOut.settled <= 1
  /\ fnOut.settled = 1 <=> fnOut.get # Pending
  /\ fnOut.get.state = "resolved" =>
       /\ HasResultField(ReplyBody)
       /\ fnOut.get.value = ReplyBody.f.result
       /\ fnOut.get.value # JUndef

GetSettled == fnOut.get # Pending

\* C19, as stated: jsonrpc.get settles exactly once; it resolves, with
\* data.result, when the status is 2xx, the body is non-empty, the body
\* has no error field and result is defined, and rejects in every other
\* case; it never resolves with undefined or with a body that carried an
\* error field.
C19_AsStated ==
  /\ [](/\ ResolvesWithResult
        /\ GetSettled =>
             (fnOut.get.state = "resolved"
                <=> (SuccessStatus /\ HasResultField(ReplyBody)
                       /\ ~HasErrorField(ReplyBody))))
  /\ <>GetSettled

\* C19, amended: jsonrpc.get settles exactly once; it resolves, with
\* data.result, when the status is 2xx, the body is non-empty, the body's
\* error member is absent or falsy (null, 0, '', false) and result is
\* defined, and rejects in every other case; it never resolves with
\* undefined or with a body whose error member is truthy.
C19_ResolvesOnlyWithResult ==
  /\ [](/\ ResolvesWithResult
        /\ GetSettled =>
             (fnOut.get.state = "resolved"
                <=> (SuccessStatus /\ HasResultField(ReplyBody)
                       /\ ~Truthy(Prop(ReplyBody, "error")))))
  /\ <>GetSettled

\* a reply with status 299 whose body has a result and a null error member,
\* resolved with the result
C19_Witness ==
  /\ fnIn.reply.kind = "response"
  /\ fnIn.reply.status = 299
  /\ ReplyBody = JObj("Object", [id |-> JNum(1), error |-> JNull, result |-> JStr("0x1")])
  /\ fnOut.get = Fulfilled(JStr("0x1"))
  /\ fnOut.settled = 1

====
